---------------------------- MODULE Spec2Model ----------------------------
(***************************************************************************)
(* A state-machine model of the retrieval core of the complaint-analysis   *)
(* repository:                                                             *)
(*   - FaissVectorStore            (src/src/vector_store.py)               *)
(*   - ComplaintRAGAgent and VectorStoreManager                            *)
(*                                 (src/src/rag_agent/agent.py,            *)
(*                                  src/src/rag_agent/vector_store.py)     *)
(*   - ComplaintVectorStore        (src/src/create_vector_store.py)        *)
(* Each class has its own specification over its own variables; the other  *)
(* variables stay at their initial values.                                 *)
(***************************************************************************)
EXTENDS Integers, Sequences, FiniteSets, TLC

VARIABLES
    store,      \* the FaissVectorStore the program holds: [index, metadata]
    disk,       \* the files under the save path: index.faiss and metadata.pkl
    pc,         \* position inside FaissVectorStore.save ("idle" between calls)
    last,       \* the last FaissVectorStore call and how it ended: [op, err]
    saved,      \* the store as it was when save last completed
    call,       \* shape of the arguments of the last add: [n, m, d]
    results,    \* what the last search returned
    crashes,    \* how many times the process died inside save
    pending,    \* the metadatas of the add under way, not yet appended
    cfgType,    \* Config.VECTOR_STORE_TYPE
    fs,         \* what lies at Config.VECTOR_STORE_PATH: [dir, files, content]
    agent,      \* the ComplaintRAGAgent: [is_initialized, vector_store, query_engine]
    apc,        \* position inside ComplaintRAGAgent.initialize ("idle" between calls)
    info,       \* the initialize call under way or last made: [force, hadIndex, path, rebuild]
    builds,     \* number of indexes built so far
    completed,  \* an initialize call has returned since the agent was made and
                \* since rebuild_index was last called
    unfinished, \* a rebuild of an agent holding an index began and no initialize
                \* has returned since
    lastAsk,    \* the last ask / compare call and what it did
    cvs,        \* the ComplaintVectorStore: [chunks, metadata, embeddings, index]
    cvsLast,    \* the last ComplaintVectorStore call: [op, err, k, hits, encoded]
    qe,         \* the store behind RAGQueryEngine: [store_type, docs]
    qLast,      \* the last query / compare_products call and its searches
    calls,      \* how many calls the query engine has served
    chunkIn,    \* a chunker and its argument: [sentences, chunk_size, overlap, metadata]
    chunkOut,   \* what the chunker returned: [op, chunks]
    arg,        \* the arguments of the function under study
    ret         \* what it returned, with the call's name: [op, err, ...]

faissVars == <<store, disk, pc, last, saved, call, results, crashes, pending>>
agentVars == <<cfgType, fs, agent, apc, info, builds, completed, unfinished, lastAsk>>
cvsVars == <<cvs, cvsLast>>
qeVars == <<qe, qLast, calls>>
chunkVars == <<chunkIn, chunkOut>>
fnVars == <<arg, ret>>
vars == <<faissVars, agentVars, cvsVars, qeVars, chunkVars, fnVars>>

(***************************************************************************)
(* Bounds and input sets.                                                  *)
(***************************************************************************)
\* Largest number of entries a store is grown to.
MaxEntries == 2

\* Rows and metadatas handed to one add call: 0, 1 or 2 of each.
BatchSizes == 0 .. 2

\* Embedding dimensions that occur (the store's and the arrays').
Dims == {1, 2}

\* Largest k of a search.
MaxK == 3

\* How many times the process may die inside save.
MaxCrashes == 1

\* Unit vectors of dimension d: the embedder hands over normalized vectors.
Rows(d) == IF d = 1 THEN {<<1>>, <<-1>>} ELSE {<<1, 0>>, <<0, 1>>}

\* Metadata entries (the product of a complaint stands for the whole dict).
Metas == {"Credit card", "Mortgage"}

SeqsOf(S, n) == [1 .. n -> S]

Min(a, b) == IF a < b THEN a ELSE b

\* np.ndarray of shape (n, d): its second dimension and its rows.
Arrays ==
    UNION { { [d |-> d, rows |-> r] : r \in SeqsOf(Rows(d), n) } :
            d \in Dims, n \in BatchSizes }

MetaLists == UNION { SeqsOf(Metas, n) : n \in BatchSizes }

(***************************************************************************)
(* faiss.IndexFlatIP as the store uses it: dimension d, ntotal vectors     *)
(* held row after row in one flat array xb.                                *)
(***************************************************************************)
RECURSIVE Flatten(_)
Flatten(rows) ==
    IF rows = <<>> THEN <<>> ELSE Head(rows) \o Flatten(Tail(rows))

IndexFlatIP(d) == [d |-> d, ntotal |-> 0, xb |-> <<>>]

\* Row i (0-based, as faiss numbers them) of an index.
Reconstruct(index, i) == SubSeq(index.xb, i * index.d + 1, (i + 1) * index.d)

\* index.add(x) with the dimension assertion left out: the rows are appended
\* whatever their width.
IndexAddUnchecked(index, x) ==
    [ok |-> TRUE,
     index |-> [d |-> index.d,
                ntotal |-> index.ntotal + Len(x.rows),
                xb |-> index.xb \o Flatten(x.rows)]]

\* index.add(x): faiss asserts x.shape[1] == index.d before it touches the
\* index, then appends the rows.
IndexAdd(index, x) ==
    IF x.d # index.d
    THEN [ok |-> FALSE, index |-> index]
    ELSE [ok |-> TRUE,
          index |-> [d |-> index.d,
                     ntotal |-> index.ntotal + Len(x.rows),
                     xb |-> index.xb \o Flatten(x.rows)]]

\* FaissVectorStore.__init__
FaissVectorStore(embedding_dim) ==
    [index |-> IndexFlatIP(embedding_dim), metadata |-> <<>>]

\* The length check of add dropped.
LengthMismatchIgnored(embeddings, metadatas) == FALSE

\* embeddings.shape[0] != len(metadatas)
LengthMismatch(embeddings, metadatas) ==
    Len(embeddings.rows) # Len(metadatas)

\* add that appends the rows and forgets metadata.extend.
AddOutcomeIndexOnly(s, embeddings, metadatas) ==
    IF LengthMismatch(embeddings, metadatas)
    THEN [err |-> "length", store |-> s]
    ELSE LET r == IndexAdd(s.index, embeddings)
         IN  IF ~r.ok
             THEN [err |-> "dimension", store |-> s]
             ELSE [err |-> "none",
                   store |-> [index |-> r.index, metadata |-> s.metadata]]

\* The outcome of add on a store: the error raised ("none" when it returns)
\* and the store afterwards.
AddOutcome(s, embeddings, metadatas) ==
    IF LengthMismatch(embeddings, metadatas)
    THEN [err |-> "length", store |-> s]
    ELSE LET r == IndexAdd(s.index, embeddings)
         IN  IF ~r.ok
             THEN [err |-> "dimension", store |-> s]
             ELSE [err |-> "none",
                   store |-> [index |-> r.index,
                              metadata |-> s.metadata \o metadatas]]

(***************************************************************************)
(* Persistence: index.faiss is the index header followed by the flat       *)
(* array; metadata.pkl is the pickled list (its length, then its items).   *)
(***************************************************************************)
NoFile == [present |-> FALSE, bytes |-> <<>>]
File(bytes) == [present |-> TRUE, bytes |-> bytes]

\* faiss.write_index
WriteIndex(index) == <<index.d, index.ntotal>> \o index.xb

\* faiss.read_index: fails on a file that is missing or cut short.
ReadIndex(f) ==
    IF ~f.present \/ Len(f.bytes) < 2
    THEN [ok |-> FALSE, index |-> IndexFlatIP(1)]
    ELSE LET d == f.bytes[1]
             n == f.bytes[2]
         IN  IF Len(f.bytes) # 2 + n * d
             THEN [ok |-> FALSE, index |-> IndexFlatIP(1)]
             ELSE [ok |-> TRUE,
                   index |-> [d |-> d, ntotal |-> n,
                              xb |-> SubSeq(f.bytes, 3, Len(f.bytes))]]

\* pickle.dump of the metadata list
PickleDump(metadata) == <<Len(metadata)>> \o metadata

\* pickle.load that returns the list back to front.
PickleLoadReversed(f) ==
    IF ~f.present \/ Len(f.bytes) < 1 \/ Len(f.bytes) # 1 + f.bytes[1]
    THEN [ok |-> FALSE, metadata |-> <<>>]
    ELSE [ok |-> TRUE,
          metadata |-> [i \in 1 .. f.bytes[1] |->
                            f.bytes[1 + (f.bytes[1] + 1 - i)]]]

\* pickle.load: fails on a file that is missing or cut short.
PickleLoad(f) ==
    IF ~f.present \/ Len(f.bytes) < 1 \/ Len(f.bytes) # 1 + f.bytes[1]
    THEN [ok |-> FALSE, metadata |-> <<>>]
    ELSE [ok |-> TRUE, metadata |-> SubSeq(f.bytes, 2, Len(f.bytes))]

\* The outcome of FaissVectorStore.load on a directory: no validation beyond
\* what reading the two files needs.
LoadOutcome(d) ==
    LET i == ReadIndex(d.index)
        m == PickleLoad(d.meta)
    IN  IF ~i.ok \/ ~m.ok
        THEN [err |-> "io", store |-> FaissVectorStore(1)]
        ELSE [err |-> "none",
              store |-> [index |-> i.index, metadata |-> m.metadata]]

(***************************************************************************)
(* Search.                                                                 *)
(***************************************************************************)
RECURSIVE Dot(_, _)
Dot(a, b) ==
    IF a = <<>> THEN 0 ELSE Head(a) * Head(b) + Dot(Tail(a), Tail(b))

\* What faiss puts in a result slot it cannot fill: label -1 and a score
\* below every inner product of unit vectors (-FLT_MAX in faiss).
PadScore == (-1) - 1
Pad == [idx |-> -1, score |-> PadScore]

Score(index, q, i) == Dot(Reconstruct(index, i), q)

\* The rankings an exhaustive scan may give: every entry once, scores never
\* increasing.  faiss keeps the best in a heap and fixes no order among
\* entries of equal score.
Rankings(index, q) ==
    {r \in [1 .. index.ntotal -> 0 .. index.ntotal - 1] :
        /\ \A p, p2 \in 1 .. index.ntotal : p # p2 => r[p] # r[p2]
        /\ \A p \in 1 .. index.ntotal - 1 :
              Score(index, q, r[p]) >= Score(index, q, r[p + 1])}

\* index.search(q, k) for one query row: always k slots, the best ntotal
\* entries first and padding after them.
IndexSearches(index, q, k) ==
    {[p \in 1 .. k |->
        IF p <= index.ntotal
        THEN [idx |-> r[p], score |-> Score(index, q, r[p])]
        ELSE Pad] : r \in Rankings(index, q)}

RECURSIVE Hits(_, _)
\* The loop of FaissVectorStore.search over the slots of one query: slots
\* labelled -1 are skipped, the others are paired with metadata[idx].
Hits(s, slots) ==
    IF slots = <<>> THEN <<>>
    ELSE IF Head(slots).idx = -1 THEN Hits(s, Tail(slots))
    ELSE <<[score |-> Head(slots).score,
            slot |-> Head(slots).idx,
            metadata |-> s.metadata[Head(slots).idx + 1]]>>
         \o Hits(s, Tail(slots))

\* FaissVectorStore.search for one query row.
SearchOutcomes(s, q, k) ==
    IF Len(q) # s.index.d
    THEN {[err |-> "dimension", hits |-> <<>>]}
    ELSE {IF \E p \in 1 .. k : slots[p].idx >= Len(s.metadata)
          THEN [err |-> "index_error", hits |-> <<>>]
          ELSE [err |-> "none", hits |-> Hits(s, slots)] :
             slots \in IndexSearches(s.index, q, k)}

(***************************************************************************)
(* The operations of FaissVectorStore.                                     *)
(***************************************************************************)
NoCall == [n |-> 0, m |-> 0, d |-> 0]
NoResults == [q |-> <<>>, k |-> 0, hits |-> <<>>]

\* add(embeddings, metadatas)
add(embeddings, metadatas) ==
    LET r == AddOutcome(store, embeddings, metadatas)
    IN  /\ pc = "idle"
        /\ r.store.index.ntotal <= MaxEntries
        /\ Len(r.store.metadata) <= MaxEntries
        /\ store' = r.store
        /\ last' = [op |-> "add", err |-> r.err]
        /\ UNCHANGED <<pc, crashes>>

\* save(path): both files written, index.faiss first.
save ==
    /\ pc = "idle"
    /\ disk' = [index |-> File(WriteIndex(store.index)),
                meta |-> File(PickleDump(store.metadata))]
    /\ saved' = store
    /\ last' = [op |-> "save", err |-> "none"]
    /\ UNCHANGED <<store, pc, crashes>>

\* load(path): the program goes on with the store load returns; when load
\* raises it keeps the store it had.
load ==
    LET r == LoadOutcome(disk)
    IN  /\ pc = "idle"
        /\ store' = IF r.err = "none" THEN r.store ELSE store
        /\ last' = [op |-> "load", err |-> r.err]
        /\ UNCHANGED <<disk, pc, saved, crashes>>

\* search(query_embeddings, k) with one query row.
search(q, k) ==
    \E r \in SearchOutcomes(store, q, k) :
        /\ pc = "idle"
        /\ results' = [q |-> q, k |-> k, hits |-> r.hits]
        /\ last' = [op |-> "search", err |-> r.err]
        /\ UNCHANGED <<store, disk, pc, saved, crashes>>

FaissInit ==
    /\ store \in {FaissVectorStore(d) : d \in Dims}
    /\ disk = [index |-> NoFile, meta |-> NoFile]
    /\ pc = "idle"
    /\ last = [op |-> "new", err |-> "none"]
    /\ saved = FaissVectorStore(1)
    /\ call = NoCall
    /\ results = NoResults
    /\ crashes = 0
    /\ pending = <<>>


\* The store with its persistence: add, save and load, every call whole.
Add ==
    \E embeddings \in Arrays, metadatas \in MetaLists :
        /\ add(embeddings, metadatas)
        /\ UNCHANGED <<disk, saved, call, results, pending, agentVars, cvsVars, qeVars, chunkVars, fnVars>>

Save == save /\ UNCHANGED <<call, results, pending, agentVars, cvsVars, qeVars, chunkVars, fnVars>>

Load == load /\ UNCHANGED <<call, results, pending, agentVars, cvsVars, qeVars, chunkVars, fnVars>>

Next == Add \/ Save \/ Load



\* The store in memory: add with the shape of its arguments recorded, and
\* search; call and results describe the last call only.
AddTraced ==
    \E embeddings \in Arrays, metadatas \in MetaLists :
        /\ add(embeddings, metadatas)
        /\ call' = [n |-> Len(embeddings.rows), m |-> Len(metadatas), d |-> embeddings.d]
        /\ results' = NoResults
        /\ UNCHANGED <<disk, saved, pending, agentVars, cvsVars, qeVars, chunkVars, fnVars>>

Search ==
    \E d \in Dims, k \in 1 .. MaxK : \E q \in Rows(d) :
        search(q, k) /\ call' = NoCall /\ UNCHANGED <<pending, agentVars, cvsVars, qeVars, chunkVars, fnVars>>

StoreNext == AddTraced \/ Search


(***************************************************************************)
(* add statement by statement, with search called from another thread.    *)
(* FaissVectorStore holds no lock: a thread may run search between any two *)
(* statements of an add.                                                   *)
(***************************************************************************)
\* add up to self.index.add(embeddings): the length check, then the rows
\* go into the index.
AddIndex ==
    \E embeddings \in Arrays, metadatas \in MetaLists :
        /\ pc = "idle"
        /\ store.index.ntotal + Len(embeddings.rows) <= MaxEntries
        /\ IF LengthMismatch(embeddings, metadatas)
           THEN /\ last' = [op |-> "add", err |-> "length"]
                /\ UNCHANGED <<store, pc, pending>>
           ELSE IF ~IndexAdd(store.index, embeddings).ok
           THEN /\ last' = [op |-> "add", err |-> "dimension"]
                /\ UNCHANGED <<store, pc, pending>>
           ELSE /\ store' = [store EXCEPT !.index = IndexAdd(store.index, embeddings).index]
                /\ pending' = metadatas
                /\ pc' = "extend"
                /\ UNCHANGED last
        /\ UNCHANGED <<disk, saved, call, results, crashes, agentVars, cvsVars, qeVars, chunkVars, fnVars>>

\* self.metadata.extend(metadatas)
AddExtend ==
    /\ pc = "extend"
    /\ store' = [store EXCEPT !.metadata = @ \o pending]
    /\ pending' = <<>>
    /\ pc' = "idle"
    /\ last' = [op |-> "add", err |-> "none"]
    /\ UNCHANGED <<disk, saved, call, results, crashes, agentVars, cvsVars, qeVars, chunkVars, fnVars>>

\* search(query_embeddings, k) from another thread, at any moment.
ThreadSearch ==
    \E d \in Dims, k \in 1 .. MaxK : \E q \in Rows(d) :
      \E r \in SearchOutcomes(store, q, k) :
        /\ results' = [q |-> q, k |-> k, hits |-> r.hits]
        /\ last' = [op |-> "search", err |-> r.err]
        /\ UNCHANGED <<store, disk, pc, saved, call, crashes, pending,
                       agentVars, cvsVars, qeVars, chunkVars, fnVars>>

ThreadNext == AddIndex \/ AddExtend \/ ThreadSearch


(***************************************************************************)
(* save statement by statement, with the process dying inside it.  save    *)
(* writes index.faiss and then metadata.pkl in place, so a crash leaves    *)
(* each file as it was, cut short, or complete.                            *)
(***************************************************************************)
\* os.makedirs(path, exist_ok=True)
SaveBegin ==
    /\ pc = "idle"
    /\ pc' = "write_index"
    /\ UNCHANGED <<store, disk, last, saved, call, results, crashes, pending, agentVars, cvsVars, qeVars, chunkVars, fnVars>>

\* faiss.write_index(self.index, f"{path}/index.faiss")
SaveWriteIndex ==
    /\ pc = "write_index"
    /\ disk' = [disk EXCEPT !.index = File(WriteIndex(store.index))]
    /\ pc' = "write_meta"
    /\ UNCHANGED <<store, last, saved, call, results, crashes, pending, agentVars, cvsVars, qeVars, chunkVars, fnVars>>

\* with open(f"{path}/metadata.pkl", "wb") as f: pickle.dump(self.metadata, f)
SaveWriteMeta ==
    /\ pc = "write_meta"
    /\ disk' = [disk EXCEPT !.meta = File(PickleDump(store.metadata))]
    /\ pc' = "idle"
    /\ saved' = store
    /\ last' = [op |-> "save", err |-> "none"]
    /\ UNCHANGED <<store, call, results, crashes, pending, agentVars, cvsVars, qeVars, chunkVars, fnVars>>

\* The process dies inside save and a new one starts with an empty store.
\* The file being written is untouched or cut short.
Crash ==
    /\ pc \in {"write_index", "write_meta"}
    /\ crashes < MaxCrashes
    /\ crashes' = crashes + 1
    /\ \E torn \in BOOLEAN :
          disk' = IF ~torn THEN disk
                  ELSE IF pc = "write_index"
                       THEN [disk EXCEPT !.index = File(<<>>)]
                       ELSE [disk EXCEPT !.meta = File(<<>>)]
    /\ pc' = "idle"
    /\ store' \in {FaissVectorStore(d) : d \in Dims}
    /\ last' = [op |-> "crash", err |-> "none"]
    /\ UNCHANGED <<saved, call, results, pending, agentVars, cvsVars, qeVars, chunkVars, fnVars>>

CrashNext == Add \/ Load \/ SaveBegin \/ SaveWriteIndex \/ SaveWriteMeta \/ Crash


(***************************************************************************)
(* ComplaintRAGAgent with its VectorStoreManager.  An index is known by    *)
(* its content: the set of builds whose documents it holds.  fs.files says *)
(* what the vector-store directory holds of a persisted index: "none",     *)
(* "whole", or "torn" (index.faiss without a matching index.pkl, or a      *)
(* Chroma collection written in part).                                     *)
(***************************************************************************)
\* Largest number of builds.
MaxBuilds == 2

StoreTypes == {"faiss", "chromadb"}

None == [some |-> FALSE, content |-> {}]
Some(content) == [some |-> TRUE, content |-> content]

\* ComplaintRAGAgent.__init__ (with VectorStoreManager.__init__)
NewAgent == [is_initialized |-> FALSE, vector_store |-> None, query_engine |-> FALSE]

NoInfo == [force |-> FALSE, hadIndex |-> FALSE, path |-> "none", rebuild |-> FALSE]
NoAsk == [op |-> "none", err |-> "none", read |-> {},
          completed |-> FALSE, unfinished |-> FALSE]

\* Config.get_vector_store_path(): os.makedirs(VECTOR_STORE_PATH, exist_ok=True)
get_vector_store_path(f) == [f EXCEPT !.dir = TRUE]

\* ComplaintRAGAgent._check_vector_store_exists
_check_vector_store_exists(type, f) ==
    IF type = "faiss" THEN f.files # "none"
    ELSE IF type = "chromadb" THEN f.dir
    ELSE FALSE

\* The branch of initialize: load when the store exists and no rebuild is
\* forced, build otherwise.
InitializePath(type, f, force_rebuild) ==
    IF _check_vector_store_exists(type, f) /\ ~force_rebuild
    THEN "loading" ELSE "building"

\* The test that opens ask and compare, dropped.
NotInitializedIgnored(a) == FALSE

\* if not self.is_initialized: raise RuntimeError(...)
NotInitialized(a) == ~a.is_initialized

\* What ask / compare do on agent a: the error raised ("none" when the
\* search runs) -- the agent's own test first, then VectorStoreManager.search's.
AskOutcome(a) ==
    IF NotInitialized(a) THEN "not_initialized"
    ELSE IF ~a.vector_store.some THEN "no_store"
    ELSE "none"

\* A call of initialize begins: the path is made, the store looked for and
\* the branch taken.
InitializeBegin(force_rebuild, viaRebuild) ==
    /\ apc = "idle"
    /\ fs' = get_vector_store_path(fs)
    /\ info' = [force |-> force_rebuild,
                hadIndex |-> fs.files # "none",
                path |-> InitializePath(cfgType, fs', force_rebuild),
                rebuild |-> viaRebuild]
    /\ apc' = IF info'.path = "loading" THEN "load" ELSE "build_data"
    /\ unfinished' = (unfinished \/ (force_rebuild /\ agent.vector_store.some))

\* initialize(force_rebuild) called on the agent
initialize ==
    \E force_rebuild \in BOOLEAN :
        /\ InitializeBegin(force_rebuild, FALSE)
        /\ UNCHANGED <<cfgType, agent, builds, completed, lastAsk>>

\* rebuild_index(): is_initialized = False, then initialize(force_rebuild=True)
rebuild_index ==
    /\ InitializeBegin(TRUE, TRUE)
    /\ agent' = [agent EXCEPT !.is_initialized = FALSE]
    /\ completed' = FALSE
    /\ UNCHANGED <<cfgType, builds, lastAsk>>

\* An exception leaves initialize: nothing after the failing statement runs.
Raise == apc' = "idle"

\* VectorStoreManager.load_vector_store: FAISS.load_local needs both files
\* whole; Chroma(persist_directory=...) opens whatever the directory holds.
load_vector_store ==
    /\ apc = "load"
    /\ IF cfgType = "faiss" /\ fs.files # "whole"
       THEN Raise /\ UNCHANGED agent
       ELSE /\ agent' = [agent EXCEPT !.vector_store = Some(fs.content)]
            /\ apc' = "finish"
    /\ UNCHANGED <<cfgType, fs, info, builds, completed, unfinished, lastAsk>>

\* _build_vector_store, first part: ComplaintLoader.load_data, preprocess,
\* get_documents.  Fails when the data cannot be read.
build_load_data ==
    /\ apc = "build_data"
    /\ \E ok \in BOOLEAN : IF ok THEN apc' = "build_create" ELSE Raise
    /\ UNCHANGED <<cfgType, fs, agent, info, builds, completed, unfinished, lastAsk>>

\* VectorStoreManager.create_vector_store: vector_store is assigned when
\* from_documents returns.  FAISS builds in memory; Chroma builds into the
\* persist directory, adding to the collection found there.  A failure
\* (the embedding call) leaves vector_store as it was.
create_vector_store ==
    /\ apc = "build_create"
    /\ \E ok \in {b \in BOOLEAN : b => builds < MaxBuilds} :
          IF ok
          THEN /\ builds' = builds + 1
               /\ IF cfgType = "faiss"
                  THEN /\ agent' = [agent EXCEPT !.vector_store = Some({builds'})]
                       /\ UNCHANGED fs
                  ELSE /\ fs' = [fs EXCEPT !.files = "whole",
                                           !.content = fs.content \cup {builds'}]
                       /\ agent' = [agent EXCEPT !.vector_store = Some(fs'.content)]
               /\ apc' = "build_save"
          ELSE /\ Raise
               /\ UNCHANGED <<agent, builds>>
               /\ IF cfgType = "faiss" THEN UNCHANGED fs
                  ELSE \E partial \in BOOLEAN :
                          fs' = IF partial THEN [fs EXCEPT !.files = "torn"] ELSE fs
    /\ UNCHANGED <<cfgType, info, completed, unfinished, lastAsk>>

\* VectorStoreManager.save_vector_store: save_local for FAISS (index.faiss,
\* then index.pkl), nothing for Chroma.
save_vector_store ==
    /\ apc = "build_save"
    /\ IF cfgType = "faiss"
       THEN \E ok \in BOOLEAN :
              IF ok
              THEN /\ fs' = [fs EXCEPT !.files = "whole",
                                       !.content = agent.vector_store.content]
                   /\ apc' = "finish"
              ELSE /\ Raise
                   /\ \E written \in BOOLEAN :
                         fs' = IF written THEN [fs EXCEPT !.files = "torn"] ELSE fs
       ELSE apc' = "finish" /\ UNCHANGED fs
    /\ UNCHANGED <<cfgType, agent, info, builds, completed, unfinished, lastAsk>>

\* The end of initialize: the query engine is made, the products loaded
\* (a failure there is caught) and is_initialized set.
initialize_finish ==
    /\ apc = "finish"
    /\ agent' = [agent EXCEPT !.query_engine = TRUE, !.is_initialized = TRUE]
    /\ apc' = "idle"
    /\ completed' = TRUE
    /\ unfinished' = FALSE
    /\ UNCHANGED <<cfgType, fs, info, builds, lastAsk>>

\* ask(question, product, k) and compare(question, products, k_per_product),
\* from the caller's thread at any moment.
ask_or_compare ==
    \E op \in {"ask", "compare"} :
        /\ lastAsk' = [op |-> op,
                       err |-> AskOutcome(agent),
                       read |-> IF AskOutcome(agent) = "none"
                                THEN agent.vector_store.content ELSE {},
                       completed |-> completed,
                       unfinished |-> unfinished]
        /\ UNCHANGED <<cfgType, fs, agent, apc, info, builds, completed, unfinished>>

\* A new process makes a new agent; the directory stays.
construct ==
    /\ apc = "idle"
    /\ agent' = NewAgent
    /\ info' = NoInfo
    /\ completed' = FALSE
    /\ unfinished' = FALSE
    /\ lastAsk' = NoAsk
    /\ UNCHANGED <<cfgType, fs, apc, builds>>

AgentRest ==
    /\ cfgType = "faiss"
    /\ fs = [dir |-> FALSE, files |-> "none", content |-> {}]
    /\ agent = NewAgent
    /\ apc = "idle"
    /\ info = NoInfo
    /\ builds = 0
    /\ completed = FALSE
    /\ unfinished = FALSE
    /\ lastAsk = NoAsk

FaissRest ==
    /\ store = FaissVectorStore(1)
    /\ disk = [index |-> NoFile, meta |-> NoFile]
    /\ pc = "idle"
    /\ last = [op |-> "new", err |-> "none"]
    /\ saved = FaissVectorStore(1)
    /\ call = NoCall
    /\ results = NoResults
    /\ crashes = 0
    /\ pending = <<>>

AgentInit ==
    /\ cfgType \in StoreTypes
    /\ fs \in {[dir |-> d, files |-> "none", content |-> {}] : d \in BOOLEAN}
    /\ agent = NewAgent
    /\ apc = "idle"
    /\ info = NoInfo
    /\ builds = 0
    /\ completed = FALSE
    /\ unfinished = FALSE
    /\ lastAsk = NoAsk
    /\ FaissRest

Initialize == initialize /\ UNCHANGED <<faissVars, cvsVars, qeVars, chunkVars, fnVars>>
RebuildIndex == rebuild_index /\ UNCHANGED <<faissVars, cvsVars, qeVars, chunkVars, fnVars>>
LoadVectorStore == load_vector_store /\ UNCHANGED <<faissVars, cvsVars, qeVars, chunkVars, fnVars>>
BuildLoadData == build_load_data /\ UNCHANGED <<faissVars, cvsVars, qeVars, chunkVars, fnVars>>
CreateVectorStore == create_vector_store /\ UNCHANGED <<faissVars, cvsVars, qeVars, chunkVars, fnVars>>
SaveVectorStore == save_vector_store /\ UNCHANGED <<faissVars, cvsVars, qeVars, chunkVars, fnVars>>
InitializeFinish == initialize_finish /\ UNCHANGED <<faissVars, cvsVars, qeVars, chunkVars, fnVars>>
AskOrCompare == ask_or_compare /\ UNCHANGED <<faissVars, cvsVars, qeVars, chunkVars, fnVars>>
Construct == construct /\ UNCHANGED <<faissVars, cvsVars, qeVars, chunkVars, fnVars>>

AgentNext ==
    \/ Initialize \/ RebuildIndex \/ LoadVectorStore \/ BuildLoadData
    \/ CreateVectorStore \/ SaveVectorStore \/ InitializeFinish
    \/ AskOrCompare \/ Construct

(***************************************************************************)
(* ComplaintVectorStore.  The text splitter and the sentence-transformer   *)
(* are libraries: a row of the frame is known by the chunks split_text     *)
(* makes of its text, and a text by the unit vector it is embedded to.     *)
(***************************************************************************)
\* Largest number of rows of a frame.
MaxRows == 1

Texts == {"fees are too high", "mortgage rate increased unfairly"}

\* self.embedding_model.encode followed by faiss.normalize_L2
Embed(t) == IF t = "fees are too high" THEN <<1, 0>> ELSE <<0, 1>>

EmbedDim == Len(Embed("fees are too high"))

\* text_splitter.split_text: no chunk of an empty text, one of a short
\* text, several of a long one.
SplitText(text) ==
    CASE text = "" -> <<>>
      [] text = "fees are too high" -> <<"fees are too high">>
      [] OTHER -> <<"fees are too high", "mortgage rate increased unfairly">>

\* The rows frames are made of.
SampleRows ==
    {[product |-> "Credit card", narrative |-> ""],
     [product |-> "Credit card", narrative |-> "fees are too high"],
     [product |-> "Mortgage",
      narrative |-> "fees are too high. mortgage rate increased unfairly"]}

Frames == UNION { SeqsOf(SampleRows, n) : n \in 0 .. MaxRows }

NoArray == [some |-> FALSE, rows |-> <<>>]
NoIndex == [some |-> FALSE, index |-> IndexFlatIP(EmbedDim)]

\* ComplaintVectorStore.__init__
ComplaintVectorStore ==
    [chunks |-> <<>>, metadata |-> <<>>, embeddings |-> NoArray, index |-> NoIndex]

RECURSIVE ChunkRows(_, _)
\* The loop of chunk_texts from row i (0-based) on: each chunk with the
\* metadata of its row and its place among the row's chunks.
ChunkRows(df, i) ==
    IF i >= Len(df) THEN [chunks |-> <<>>, metadata |-> <<>>]
    ELSE LET row == df[i + 1]
             text_chunks == SplitText(row.narrative)
             rest == ChunkRows(df, i + 1)
         IN  [chunks |-> text_chunks \o rest.chunks,
              metadata |->
                  [c \in 1 .. Len(text_chunks) |->
                      [product_category |-> row.product,
                       chunk_index |-> c - 1,
                       total_chunks |-> Len(text_chunks),
                       original_index |-> i]] \o rest.metadata]

\* Python's list[idx]: a negative idx counts from the end.
PyIndexOk(list, idx) == idx < Len(list) /\ idx >= -Len(list)
PyIndex(list, idx) == IF idx >= 0 THEN list[idx + 1] ELSE list[Len(list) + idx + 1]

\* The result loop of ComplaintVectorStore.search: every slot index.search
\* returns is used as a list index, the padding label -1 included.
CvsSearchOutcomes(c, query, k) ==
    IF ~c.index.some THEN {[err |-> "no_index", hits |-> <<>>]}
    ELSE {IF \E p \in 1 .. k :
                ~PyIndexOk(c.chunks, slots[p].idx)
                \/ ~PyIndexOk(c.metadata, slots[p].idx)
          THEN [err |-> "index_error", hits |-> <<>>]
          ELSE [err |-> "none",
                hits |-> [p \in 1 .. k |->
                            [idx |-> slots[p].idx,
                             chunk |-> PyIndex(c.chunks, slots[p].idx),
                             metadata |-> PyIndex(c.metadata, slots[p].idx),
                             score |-> slots[p].score]]] :
          slots \in IndexSearches(c.index.index, Embed(query), k)}

\* encoded: how many chunks a generate_embeddings had encoded when it ended.
NoCvsCall == [op |-> "new", err |-> "none", k |-> 0, hits |-> <<>>, encoded |-> 0]

\* chunk_texts(df): chunks and metadata are emptied and filled again; the
\* closing average over len(df) raises for a frame of no rows.
chunk_texts ==
    \E df \in Frames :
      \E made \in {ChunkRows(df, 0)} :
        /\ cvs' = [cvs EXCEPT !.chunks = made.chunks, !.metadata = made.metadata]
        /\ cvsLast' = [NoCvsCall EXCEPT !.op = "chunk_texts",
                          !.err = IF Len(df) = 0 THEN "zero_division" ELSE "none"]

\* Largest batch_size of generate_embeddings.
MaxBatch == 2

\* range(0, len(self.chunks), batch_size): how many batches there are.
Batches(c, batch_size) == (Len(c.chunks) + batch_size - 1) \div batch_size

\* The vectors of the first n chunks, as the batches stack them.
Encoded(c, n) == [i \in 1 .. n |-> Embed(c.chunks[i])]

\* generate_embeddings that keeps what it has encoded when a batch fails.
GenerateEmbeddingsPartial(c, batch_size, fail) ==
    IF fail # 0
    THEN [err |-> "embedding", encoded |-> (fail - 1) * batch_size,
          store |-> [c EXCEPT !.embeddings =
                        [some |-> TRUE,
                         rows |-> Encoded(c, (fail - 1) * batch_size)]]]
    ELSE IF Batches(c, batch_size) = 0
    THEN [err |-> "vstack", encoded |-> 0, store |-> c]
    ELSE [err |-> "none", encoded |-> Len(c.chunks),
          store |-> [c EXCEPT !.embeddings =
                        [some |-> TRUE, rows |-> Encoded(c, Len(c.chunks))]]]

\* generate_embeddings(batch_size) when encode raises in batch fail (1-based;
\* 0: in none).  The batches are gathered in the local embeddings_list and
\* self.embeddings is assigned after the loop; np.vstack of no batch at all
\* raises.
GenerateEmbeddingsOutcome(c, batch_size, fail) ==
    IF fail # 0
    THEN [err |-> "embedding", encoded |-> (fail - 1) * batch_size, store |-> c]
    ELSE IF Batches(c, batch_size) = 0
    THEN [err |-> "vstack", encoded |-> 0, store |-> c]
    ELSE [err |-> "none", encoded |-> Len(c.chunks),
          store |-> [c EXCEPT !.embeddings =
                        [some |-> TRUE, rows |-> Encoded(c, Len(c.chunks))]]]

\* generate_embeddings(batch_size)
generate_embeddings ==
    \E batch_size \in 1 .. MaxBatch :
      \E fail \in 0 .. Batches(cvs, batch_size) :
        \E out \in {GenerateEmbeddingsOutcome(cvs, batch_size, fail)} :
          /\ cvs' = out.store
          /\ cvsLast' = [NoCvsCall EXCEPT !.op = "generate_embeddings",
                                          !.err = out.err,
                                          !.encoded = out.encoded]

\* create_vector_store(): a new IndexFlatIP over self.embeddings; raises when
\* there are none.
cvs_create_vector_store ==
    /\ cvs' = IF cvs.embeddings.some
              THEN [cvs EXCEPT !.index =
                      [some |-> TRUE,
                       index |-> IndexAdd(IndexFlatIP(EmbedDim),
                                          [d |-> EmbedDim,
                                           rows |-> cvs.embeddings.rows]).index]]
              ELSE cvs
    /\ cvsLast' = [NoCvsCall EXCEPT !.op = "create_vector_store",
                      !.err = IF cvs.embeddings.some THEN "none" ELSE "no_embeddings"]

\* search(query, k)
cvs_search ==
    \E query \in Texts, k \in 1 .. MaxK :
      \E out \in CvsSearchOutcomes(cvs, query, k) :
        /\ cvsLast' = [NoCvsCall EXCEPT !.op = "search", !.err = out.err,
                                        !.k = k, !.hits = out.hits]
        /\ UNCHANGED cvs

CvsRest ==
    /\ cvs = ComplaintVectorStore
    /\ cvsLast = NoCvsCall

ChunkTexts == chunk_texts /\ UNCHANGED <<faissVars, agentVars, qeVars, chunkVars, fnVars>>
GenerateEmbeddings == generate_embeddings /\ UNCHANGED <<faissVars, agentVars, qeVars, chunkVars, fnVars>>
CvsCreateVectorStore == cvs_create_vector_store /\ UNCHANGED <<faissVars, agentVars, qeVars, chunkVars, fnVars>>
CvsSearch == cvs_search /\ UNCHANGED <<faissVars, agentVars, qeVars, chunkVars, fnVars>>

CvsNext == ChunkTexts \/ GenerateEmbeddings \/ CvsCreateVectorStore \/ CvsSearch

(***************************************************************************)
(* RAGQueryEngine over VectorStoreManager.search.  The store holds one     *)
(* document per complaint, its metadata known by the product; a hit is the *)
(* position of the document in the store.                                  *)
(***************************************************************************)
\* Largest number of documents in the store and of products compared.
MaxDocs == 3
MaxProducts == 2

\* Largest number of calls served by one query engine.
MaxCalls == 1

\* fetch_k of langchain's FAISS.similarity_search, which the manager leaves
\* at its default (20 in langchain; scaled to the size of the stores here).
FetchK == 2

\* Config.TOP_K_RESULTS, read from the environment (5 when it is not set).
TOP_K_RESULTS == 2

Products == Metas

DocLists ==
    UNION { SeqsOf([text : Texts, product : Metas], n) : n \in 0 .. MaxDocs }

\* An optional argument: absent (None) or given.
Absent == [given |-> FALSE, value |-> 0]
Given(v) == [given |-> TRUE, value |-> v]

\* Python's `k or Config.TOP_K_RESULTS`: None and 0 both give the default.
KOrDefault(k) == IF k.given /\ k.value # 0 THEN k.value ELSE TOP_K_RESULTS

\* A product filter: None, or {'product': product}.
NoFilter == [given |-> FALSE, value |-> ""]
Filter(product) == [given |-> TRUE, value |-> product]

\* filter_dict of query: {'product': product_filter} when product_filter is
\* truthy (neither None nor the empty string), None otherwise.
FilterDict(product_filter) ==
    IF product_filter.given /\ product_filter.value # ""
    THEN Filter(product_filter.value) ELSE NoFilter

RECURSIVE SqDist(_, _)
\* The squared L2 distance langchain's stores rank by.
SqDist(a, b) ==
    IF a = <<>> THEN 0
    ELSE (Head(a) - Head(b)) * (Head(a) - Head(b)) + SqDist(Tail(a), Tail(b))

\* The orders in which the store may rank its documents for a question:
\* nearest first, no order fixed among equal distances.
DocRankings(docs, question) ==
    {r \in [1 .. Len(docs) -> 1 .. Len(docs)] :
        /\ \A p, p2 \in 1 .. Len(docs) : p # p2 => r[p] # r[p2]
        /\ \A p \in 1 .. Len(docs) - 1 :
              SqDist(Embed(docs[r[p]].text), Embed(question))
                 <= SqDist(Embed(docs[r[p + 1]].text), Embed(question))}

Take(s, n) == SubSeq(s, 1, Min(n, Len(s)))

Matches(docs, f, i) == ~f.given \/ docs[i].product = f.value

RECURSIVE Keep(_, _, _)
\* The candidates whose metadata passes the filter, in their order.
Keep(docs, f, cand) ==
    IF cand = <<>> THEN <<>>
    ELSE IF Matches(docs, f, Head(cand))
         THEN <<Head(cand)>> \o Keep(docs, f, Tail(cand))
         ELSE Keep(docs, f, Tail(cand))

\* langchain FAISS.similarity_search(query, k, filter): index.search for k
\* candidates, or for fetch_k of them when a filter is given; the filter is
\* applied to the candidates and the first k are returned.
FaissSimilaritySearches(docs, question, k, f) ==
    {Take(Keep(docs, f, Take(r, IF f.given THEN FetchK ELSE k)), k) :
        r \in DocRankings(docs, question)}

\* langchain Chroma.similarity_search(query, k, filter): the collection is
\* queried with where=filter and n_results=k.
ChromaSimilaritySearches(docs, question, k, f) ==
    {Take(Keep(docs, f, r), k) : r \in DocRankings(docs, question)}

\* VectorStoreManager.search(query, k, filter_dict) on a store that is there.
ManagerSearches(q, question, k, f) ==
    IF q.store_type = "faiss"
    THEN FaissSimilaritySearches(q.docs, question, KOrDefault(k), f)
    ELSE ChromaSimilaritySearches(q.docs, question, KOrDefault(k), f)

NoQuery ==
    [op |-> "none", question |-> "", product_filter |-> NoFilter, products |-> <<>>,
     k |-> Absent, searches |-> <<>>, groups |-> <<>>, sources |-> <<>>]

RECURSIVE Concat(_)
Concat(groups) == IF groups = <<>> THEN <<>> ELSE Head(groups) \o Concat(Tail(groups))

RECURSIVE GroupSets(_, _, _, _)
\* The results the loop of compare_products may collect: one search per
\* element of products, in order.
GroupSets(q, question, products, k) ==
    IF products = <<>> THEN {<<>>}
    ELSE {<<docs>> \o rest :
             docs \in ManagerSearches(q, question, k, Filter(Head(products))),
             rest \in GroupSets(q, question, Tail(products), k)}

\* RAGQueryEngine.query(question, product_filter, k)
query ==
    /\ calls < MaxCalls
    /\ \E question \in Texts,
       product_filter \in {NoFilter} \cup {Filter(p) : p \in Products \cup {""}},
       k \in {Absent} \cup {Given(v) : v \in 0 .. MaxK} :
      \E docs \in ManagerSearches(qe, question, Given(KOrDefault(k)),
                                  FilterDict(product_filter)) :
        /\ calls' = calls + 1
        /\ qLast' = [op |-> "query", question |-> question,
                     product_filter |-> product_filter, products |-> <<>>, k |-> k,
                     searches |-> <<[filter |-> FilterDict(product_filter),
                                     k |-> KOrDefault(Given(KOrDefault(k)))]>>,
                     groups |-> <<docs>>, sources |-> docs]
        /\ UNCHANGED qe

\* RAGQueryEngine.compare_products(question, products, k_per_product)
compare_products ==
    /\ calls < MaxCalls
    /\ \E question \in Texts,
       products \in UNION { SeqsOf(Products, n) : n \in 0 .. MaxProducts },
       k_per_product \in 0 .. MaxK :
      \E groups \in GroupSets(qe, question, products, Given(k_per_product)) :
        /\ calls' = calls + 1
        /\ qLast' = [op |-> "compare", question |-> question,
                     product_filter |-> NoFilter, products |-> products,
                     k |-> Given(k_per_product),
                     searches |-> [i \in 1 .. Len(products) |->
                                     [filter |-> Filter(products[i]),
                                      k |-> KOrDefault(Given(k_per_product))]],
                     groups |-> groups, sources |-> Concat(groups)]
        /\ UNCHANGED qe

QeRest ==
    /\ qe = [store_type |-> "faiss", docs |-> <<>>]
    /\ qLast = NoQuery
    /\ calls = 0

\* RAGQueryEngine.__init__(vector_store_manager): the engine is made over a
\* manager whose store has been created or loaded.
QeInit ==
    /\ qe \in {[store_type |-> t, docs |-> docs] : t \in StoreTypes, docs \in DocLists}
    /\ qLast = NoQuery
    /\ calls = 0

Query == query /\ UNCHANGED <<faissVars, agentVars, cvsVars, chunkVars, fnVars>>
CompareProducts == compare_products /\ UNCHANGED <<faissVars, agentVars, cvsVars, chunkVars, fnVars>>

QeNext == Query \/ CompareProducts

(***************************************************************************)
(* The sentence chunkers: TextChunker.chunk (budget in characters, with    *)
(* overlap) and EmbeddingModel._chunk_text (budget in words).  A text is   *)
(* known by the sentences sent_tokenize makes of it, a sentence by its     *)
(* place in the text, its length and its number of words; the text of a    *)
(* chunk, " ".join(current_chunk), is the sequence of the sentences        *)
(* joined.  A dict is the set of its <<key, value>> items.                 *)
(***************************************************************************)
\* Largest number of sentences of a text, largest length of a sentence (the
\* characters TextChunker counts, the words _chunk_text counts), largest
\* chunk_size / max_words and overlap.
MaxSentences == 3
MaxLength == 3
MaxChunkSize == 2
MaxOverlap == 2

SentenceLists ==
    UNION { {[i \in 1 .. n |-> [id |-> i, len |-> m[i], words |-> m[i]]] :
                m \in [1 .. n -> 1 .. MaxLength]} : n \in 0 .. MaxSentences }

Dicts == {{}} \cup {{<<"product", p>>} : p \in Metas}

RECURSIVE SumLen(_)
\* sum(len(s) for s in current_chunk)
SumLen(sentences) ==
    IF sentences = <<>> THEN 0 ELSE Head(sentences).len + SumLen(Tail(sentences))

RECURSIVE SumWords(_)
SumWords(sentences) ==
    IF sentences = <<>> THEN 0 ELSE Head(sentences).words + SumWords(Tail(sentences))

\* The seed taken from the front of the closed chunk.
SeedFirst(current_chunk, overlap) == SubSeq(current_chunk, 1, Min(overlap, Len(current_chunk)))

\* current_chunk[-self.overlap:] if self.overlap > 0 else []
Seed(current_chunk, overlap) ==
    IF overlap > 0
    THEN SubSeq(current_chunk,
                IF Len(current_chunk) > overlap THEN Len(current_chunk) - overlap + 1 ELSE 1,
                Len(current_chunk))
    ELSE <<>>

\* A flush that appends nothing.
FlushDropped(chunks, current_chunk, metadata) == chunks

\* if current_chunk: chunks.append({"text": ..., "metadata": metadata})
Flush(chunks, current_chunk, metadata) ==
    IF current_chunk # <<>>
    THEN Append(chunks, [text |-> current_chunk, metadata |-> metadata])
    ELSE chunks

RECURSIVE ChunkLoop(_, _, _, _, _, _, _)
\* The loop of TextChunker.chunk from sentence i on, and the closing flush.
ChunkLoop(sentences, i, chunks, current_chunk, current_length, c, metadata) ==
    IF i > Len(sentences) THEN Flush(chunks, current_chunk, metadata)
    ELSE LET sentence == sentences[i]
             closing == current_length + sentence.len > c.chunk_size
             kept == IF closing THEN Seed(current_chunk, c.overlap) ELSE current_chunk
         IN  ChunkLoop(sentences, i + 1,
                       IF closing THEN Flush(chunks, current_chunk, metadata) ELSE chunks,
                       Append(kept, sentence),
                       (IF closing THEN SumLen(kept) ELSE current_length) + sentence.len,
                       c, metadata)

\* TextChunker.chunk(text, metadata): a blank text has no sentence and
\* gives no chunk.
TextChunkerChunk(c) ==
    IF c.sentences = <<>> THEN <<>>
    ELSE ChunkLoop(c.sentences, 1, <<>>, <<>>, 0, c, c.metadata)

RECURSIVE ChunkTextLoop(_, _, _, _, _, _)
\* The loop of EmbeddingModel._chunk_text: the current chunk is closed
\* (empty or not) when the next sentence does not fit.
ChunkTextLoop(sentences, i, chunks, current_chunk, length, max_words) ==
    IF i > Len(sentences)
    THEN IF current_chunk # <<>> THEN Append(chunks, [text |-> current_chunk]) ELSE chunks
    ELSE LET sentence == sentences[i]
         IN  IF length + sentence.words <= max_words
             THEN ChunkTextLoop(sentences, i + 1, chunks, Append(current_chunk, sentence),
                                length + sentence.words, max_words)
             ELSE ChunkTextLoop(sentences, i + 1,
                                Append(chunks, [text |-> current_chunk]),
                                <<sentence>>, sentence.words, max_words)

\* EmbeddingModel._chunk_text(text), max_words being the chunk_size
EmbeddingChunkText(c) == ChunkTextLoop(c.sentences, 1, <<>>, <<>>, 0, c.chunk_size)

NoChunks == [op |-> "none", chunks |-> <<>>]

chunk ==
    /\ chunkOut.op = "none"
    /\ chunkOut' = [op |-> "chunk", chunks |-> TextChunkerChunk(chunkIn)]
    /\ UNCHANGED chunkIn

_chunk_text ==
    /\ chunkOut.op = "none"
    /\ chunkOut' = [op |-> "_chunk_text", chunks |-> EmbeddingChunkText(chunkIn)]
    /\ UNCHANGED chunkIn

ChunkRest ==
    /\ chunkIn = [sentences |-> <<>>, chunk_size |-> 1, overlap |-> 0, metadata |-> {}]
    /\ chunkOut = NoChunks

\* TextChunker.__init__(chunk_size, overlap) / EmbeddingModel.__init__(max_words)
\* and the text handed over.
ChunkInit ==
    /\ chunkIn \in [sentences : SentenceLists, chunk_size : 1 .. MaxChunkSize,
                    overlap : 0 .. MaxOverlap, metadata : Dicts]
    /\ chunkOut = NoChunks

Chunk == chunk /\ UNCHANGED <<faissVars, agentVars, cvsVars, qeVars, fnVars>>
ChunkText == _chunk_text /\ UNCHANGED <<faissVars, agentVars, cvsVars, qeVars, fnVars>>

ChunkNext == Chunk \/ ChunkText

(***************************************************************************)
(* EmbeddingModel.embed_texts.  The sentence-transformer is a library: a   *)
(* vector is known by the chunk it encodes.                                *)
(***************************************************************************)
\* Largest number of texts handed to embed_texts.
MaxTexts == 2

TextLists == UNION {SeqsOf(SentenceLists, n) : n \in 0 .. MaxTexts}

RECURSIVE AllChunks(_, _)
\* for text in texts: all_chunks.extend(self._chunk_text(text))
AllChunks(texts, max_words) ==
    IF texts = <<>> THEN <<>>
    ELSE ChunkTextLoop(Head(texts), 1, <<>>, <<>>, 0, max_words)
            \o AllChunks(Tail(texts), max_words)

\* self.model.encode(all_chunks, ...): one row per chunk.
Encode(all_chunks) == [i \in 1 .. Len(all_chunks) |-> [of |-> all_chunks[i].text]]

\* embed_texts(texts)
EmbedTexts(texts, max_words) == Encode(AllChunks(texts, max_words))

\* embed_texts(texts)
embed_texts ==
    /\ ret.op = "none"
    /\ ret' = [op |-> "embed_texts", err |-> "none",
               vectors |-> EmbedTexts(arg.texts, arg.max_words)]
    /\ UNCHANGED arg

\* EmbeddingModel.__init__(max_words) and the texts handed over.
EmbedInit ==
    /\ arg \in [texts : TextLists, max_words : 1 .. MaxChunkSize]
    /\ ret = [op |-> "none", err |-> "none", diff |-> 0,
              allocations |-> <<>>, parts |-> <<>>]

EmbedTextsCall ==
    embed_texts /\ UNCHANGED <<faissVars, agentVars, cvsVars, qeVars, chunkVars>>

EmbedNext == EmbedTextsCall

(***************************************************************************)
(* The two stratified samplers.  A frame is known by its value_counts():   *)
(* the sizes of its classes, largest first, and by how many of its rows    *)
(* have no label (value_counts() leaves them out, len(df) counts them).    *)
(***************************************************************************)
\* Largest number of classes of a frame.
MaxClasses == 4
\* Largest number of rows of one class.
MaxCount == 6
\* Largest number of rows without a label.
MaxMissing == 1

RECURSIVE SeqSum(_)
SeqSum(s) == IF s = <<>> THEN 0 ELSE s[1] + SeqSum(Tail(s))

\* df[label_col].value_counts(): most frequent class first.
ValueCounts ==
    {c \in UNION {SeqsOf(1 .. MaxCount, n) : n \in 0 .. MaxClasses} :
        \A i \in 1 .. Len(c) - 1 : c[i] >= c[i + 1]}

LabelFrames == [counts : ValueCounts, missing : 0 .. MaxMissing]

\* len(df)
FrameLen(df) == SeqSum(df.counts) + df.missing

\* Series.round(): the nearest integer of num / den, a half going to the
\* even neighbour.
Round(num, den) ==
    LET q == num \div den
        r == num % den
    IN  IF 2 * r < den THEN q
        ELSE IF 2 * r > den THEN q + 1
        ELSE IF q % 2 = 0 THEN q ELSE q + 1

\* (proportions * sample_size).round().astype(int), then every 0 made 1.
InitialAllocations(counts, sample_size) ==
    [i \in 1 .. Len(counts) |->
        LET a == Round(counts[i] * sample_size, SeqSum(counts))
        IN  IF a = 0 THEN 1 ELSE a]

\* The adjustment left out.
AdjustSkipped(allocations, diff) == allocations

\* The adjustment loop: one pass over the labels, one unit each, until diff
\* is used up.
Adjust(allocations, diff) ==
    [i \in 1 .. Len(allocations) |->
        IF diff > 0 /\ i <= diff THEN allocations[i] + 1
        ELSE IF diff < 0 /\ i <= -diff THEN allocations[i] - 1
        ELSE allocations[i]]

\* n_samples = min(n_samples, len(subset)) for every class.
Cap(allocations, counts) ==
    [i \in 1 .. Len(allocations) |-> Min(allocations[i], counts[i])]

NoSample == [op |-> "none", err |-> "none", diff |-> 0,
             allocations |-> <<>>, parts |-> <<>>]

\* sampling.stratified_sample(df, label_col, sample_size): parts[i] is the
\* number of rows of class i in the sample.  pd.concat of no part raises.
StratifiedSample(df, sample_size) ==
    IF sample_size > FrameLen(df)
    THEN [NoSample EXCEPT !.err = "value_error"]
    ELSE LET initial == InitialAllocations(df.counts, sample_size)
             diff == sample_size - SeqSum(initial)
             allocations == Adjust(initial, diff)
         IN  [err |-> IF df.counts = <<>> THEN "no_objects" ELSE "none",
              op |-> "none",
              diff |-> diff,
              allocations |-> allocations,
              parts |-> IF df.counts = <<>> THEN <<>>
                        ELSE Cap(allocations, df.counts)]

\* int(n_samples * proportion), at least 1, at most the product's rows.
SamplesPerProduct(df, n_samples) ==
    [i \in 1 .. Len(df.counts) |->
        LET sample_size == (n_samples * df.counts[i]) \div FrameLen(df)
        IN  Min(IF sample_size < 1 THEN 1 ELSE sample_size, df.counts[i])]

\* ComplaintVectorStore.stratified_sample(df, n_samples): what is missing
\* of n_samples goes to the largest product; a product asked for more rows
\* than it has gives all of them.
CvsStratifiedSample(df, n_samples) ==
    LET initial == SamplesPerProduct(df, n_samples)
        current_total == SeqSum(initial)
    IN  IF current_total < n_samples /\ df.counts = <<>>
        THEN [NoSample EXCEPT !.err = "index_error"]
        ELSE LET samples_per_product ==
                    IF current_total < n_samples
                    THEN [initial EXCEPT ![1] = @ + (n_samples - current_total)]
                    ELSE initial
             IN  [err |-> IF df.counts = <<>> THEN "no_objects" ELSE "none",
                  op |-> "none",
                  diff |-> n_samples - current_total,
                  allocations |-> samples_per_product,
                  parts |-> Cap(samples_per_product, df.counts)]

\* stratified_sample(df, label_col, sample_size)
stratified_sample ==
    /\ ret.op = "none"
    /\ ret' = [StratifiedSample(arg.df, arg.size) EXCEPT !.op = "stratified_sample"]
    /\ UNCHANGED arg

\* ComplaintVectorStore.stratified_sample(df, n_samples)
cvs_stratified_sample ==
    /\ ret.op = "none"
    /\ ret' = [CvsStratifiedSample(arg.df, arg.size) EXCEPT !.op = "cvs_stratified_sample"]
    /\ UNCHANGED arg

FnRest ==
    /\ arg = <<>>
    /\ ret = NoSample

SampleInit ==
    /\ arg \in {[df |-> df, size |-> n] :
                    df \in LabelFrames, n \in 0 .. (MaxClasses * MaxCount + MaxMissing + 1)}
    /\ arg.size <= FrameLen(arg.df) + 1
    /\ ret = NoSample

SamplingStratifiedSample ==
    stratified_sample /\ UNCHANGED <<faissVars, agentVars, cvsVars, qeVars, chunkVars>>
CvsStratifiedSampleCall ==
    cvs_stratified_sample /\ UNCHANGED <<faissVars, agentVars, cvsVars, qeVars, chunkVars>>

SampleNext == SamplingStratifiedSample \/ CvsStratifiedSampleCall

(***************************************************************************)
(* ComplaintDataLoader._clean_text.  A text is the sequence of its         *)
(* characters: a letter, a blank, a tab, and a character outside           *)
(* [\w\s.,!?-].                                                            *)
(***************************************************************************)
\* Longest text.
MaxText == 5

Chars == {"a", " ", "\t", "@"}
Whitespace == {" ", "\t"}

RawTexts == UNION {SeqsOf(Chars, n) : n \in 0 .. MaxText}

RECURSIVE CollapseWhitespace(_)
\* re.sub(r'\s+', ' ', text): every run of whitespace becomes one blank.
CollapseWhitespace(text) ==
    IF text = <<>> THEN <<>>
    ELSE IF Head(text) \in Whitespace
    THEN IF Len(text) > 1 /\ text[2] \in Whitespace
         THEN CollapseWhitespace(Tail(text))
         ELSE <<" ">> \o CollapseWhitespace(Tail(text))
    ELSE <<Head(text)>> \o CollapseWhitespace(Tail(text))

\* re.sub(r'[^\w\s.,!?-]', '', text)
RemoveSpecial(text) == SelectSeq(text, LAMBDA ch : ch \in {"a"} \cup Whitespace)

RECURSIVE StripLeft(_)
StripLeft(text) ==
    IF text # <<>> /\ Head(text) \in Whitespace THEN StripLeft(Tail(text)) ELSE text

RECURSIVE StripRight(_)
StripRight(text) ==
    IF text # <<>> /\ text[Len(text)] \in Whitespace
    THEN StripRight(SubSeq(text, 1, Len(text) - 1))
    ELSE text

\* text.strip()
Strip(text) == StripRight(StripLeft(text))

\* _clean_text(text); t.str tells whether text is a str.
CleanText(t) ==
    IF ~t.str THEN <<>>
    ELSE Strip(RemoveSpecial(CollapseWhitespace(t.chars)))

\* _clean_text(text)
_clean_text ==
    /\ ret.op = "none"
    /\ ret' = [op |-> "_clean_text", err |-> "none", text |-> CleanText(arg)]
    /\ UNCHANGED arg

CleanInit ==
    /\ arg \in {[str |-> TRUE, chars |-> c] : c \in RawTexts}
                \cup {[str |-> FALSE, chars |-> <<>>]}
    /\ ret = NoSample

CleanTextCall ==
    _clean_text /\ UNCHANGED <<faissVars, agentVars, cvsVars, qeVars, chunkVars>>

CleanNext == CleanTextCall

(***************************************************************************)
(* Specifications.                                                         *)
(***************************************************************************)
Init == FaissInit /\ AgentRest /\ CvsRest /\ QeRest /\ ChunkRest /\ FnRest

\* FaissVectorStore with its persistence, every call whole.
Spec == Init /\ [][Next]_vars

\* FaissVectorStore in memory: add and search.
StoreSpec == Init /\ [][StoreNext]_vars

\* FaissVectorStore with a process that may die inside save.
CrashSpec == Init /\ [][CrashNext]_vars

\* FaissVectorStore used by two threads.
ThreadSpec == Init /\ [][ThreadNext]_vars

\* ComplaintRAGAgent.
AgentStart == AgentInit /\ CvsRest /\ QeRest /\ ChunkRest /\ FnRest
AgentSpec == AgentStart /\ [][AgentNext]_vars

\* ComplaintVectorStore.
CvsInit == CvsRest /\ FaissRest /\ AgentRest /\ QeRest /\ ChunkRest /\ FnRest
CvsSpec == CvsInit /\ [][CvsNext]_vars

\* RAGQueryEngine.
QeStart == QeInit /\ FaissRest /\ AgentRest /\ CvsRest /\ ChunkRest /\ FnRest
QeSpec == QeStart /\ [][QeNext]_vars

\* The stratified samplers.
SampleStart == SampleInit /\ FaissRest /\ AgentRest /\ CvsRest /\ QeRest /\ ChunkRest
SampleSpec == SampleStart /\ [][SampleNext]_vars

\* ComplaintDataLoader._clean_text.
CleanStart == CleanInit /\ FaissRest /\ AgentRest /\ CvsRest /\ QeRest /\ ChunkRest
CleanSpec == CleanStart /\ [][CleanNext]_vars

\* EmbeddingModel.embed_texts.
EmbedStart == EmbedInit /\ FaissRest /\ AgentRest /\ CvsRest /\ QeRest /\ ChunkRest
EmbedSpec == EmbedStart /\ [][EmbedNext]_vars

\* The chunkers.
ChunkStart == ChunkInit /\ FaissRest /\ AgentRest /\ CvsRest /\ QeRest /\ FnRest
ChunkSpec == ChunkStart /\ [][ChunkNext]_vars

(***************************************************************************)
(* Properties of FaissVectorStore.                                         *)
(***************************************************************************)

\* C1: whatever adds (returning or raising) and whole save / load calls the
\* store has seen, its index holds as many vectors as its metadata list has
\* entries.
C1_VectorsMatchMetadata == store.index.ntotal = Len(store.metadata)

\* A non-empty store that was saved or loaded, right after an add that raised.
C1_Witness ==
    /\ last.op = "add" /\ last.err # "none"
    /\ store.index.ntotal > 0
    /\ disk.index.present /\ saved = store

\* C2: an add whose number of rows differs from its number of metadatas
\* raises the length-mismatch error and leaves index and metadata as they
\* were.
C2_LengthMismatchRejected ==
    [][(last'.op = "add" /\ call'.n # call'.m)
        => (last'.err = "length" /\ store' = store)]_vars

\* A length-mismatched add on a store that holds entries.
C2_Witness ==
    /\ last.op = "add" /\ call.n # call.m /\ last.err = "length"
    /\ store.index.ntotal > 0

\* C3: an add of rows of another dimension than the index's, on a store that
\* holds entries, raises and leaves index and metadata as they were; the
\* error is the dimension mismatch whenever the rows and metadatas agree in
\* number (otherwise the length check of C2 comes first).
C3_DimensionGuard ==
    [][(last'.op = "add" /\ call'.d # store.index.d /\ store.index.ntotal > 0)
        => /\ last'.err # "none"
           /\ store' = store
           /\ (call'.n = call'.m => last'.err = "dimension")]_vars

\* Rows of the wrong dimension, with as many metadatas, refused by a store
\* that holds entries.
C3_Witness ==
    /\ last.op = "add" /\ last.err = "dimension"
    /\ call.n > 0 /\ call.n = call.m /\ call.d # store.index.d
    /\ store.index.ntotal > 0

\* C9: a load that returns yields the store that was saved: the same
\* dimension, the same vectors slot by slot, the same metadata list, and the
\* same search result for every query and k.
C9_RoundTrip ==
    (last.op = "load" /\ last.err = "none")
        => /\ store.index.d = saved.index.d
           /\ store.index.ntotal = saved.index.ntotal
           /\ \A i \in 0 .. saved.index.ntotal - 1 :
                  Reconstruct(store.index, i) = Reconstruct(saved.index, i)
           /\ store.metadata = saved.metadata
           /\ \A k \in 1 .. MaxK : \A q \in Rows(saved.index.d) :
                  SearchOutcomes(store, q, k) = SearchOutcomes(saved, q, k)

\* A loaded store with two different vectors and two different metadatas.
C9_Witness ==
    /\ last.op = "load" /\ last.err = "none"
    /\ store.index.ntotal = 2
    /\ Reconstruct(store.index, 0) # Reconstruct(store.index, 1)
    /\ store.metadata[1] # store.metadata[2]

\* C7: save is atomic under a crash: outside of a save, whatever directory
\* load accepts holds as many vectors as metadata entries and is the store
\* of the last save that completed (never files of two saves).
C7_SaveAtomic ==
    (pc = "idle" /\ LoadOutcome(disk).err = "none")
        => /\ LoadOutcome(disk).store.index.ntotal
                = Len(LoadOutcome(disk).store.metadata)
           /\ LoadOutcome(disk).store = saved

\* C8: a load of a directory whose index and metadata disagree in number
\* fails and returns no store.
C8_LoadValidates ==
    (/\ last.op = "load"
     /\ ReadIndex(disk.index).ok /\ PickleLoad(disk.meta).ok
     /\ ReadIndex(disk.index).index.ntotal # Len(PickleLoad(disk.meta).metadata))
        => last.err # "none"

(***************************************************************************)
(* Properties of ComplaintRAGAgent.                                        *)
(***************************************************************************)

C5_InitializePath ==
    /\ info.path # "none"
          => ((info.path = "loading") <=> (info.hadIndex /\ ~info.force))
    /\ (apc = "finish" /\ info.path = "building")
          => /\ agent.vector_store.some
             /\ fs.files = "whole"
             /\ fs.content = agent.vector_store.content

\* C6: from the start of a rebuild until an initialize returns, the old
\* index is gone from memory while the new one is being built, and every
\* ask or compare is refused.
C6_RebuildIsolated ==
    /\ (unfinished /\ apc \in {"build_data", "build_create"})
          => ~agent.vector_store.some
    /\ (lastAsk.op # "none" /\ lastAsk.unfinished)
          => lastAsk.err = "not_initialized"

\* C13: a build that fails at any of its steps (loading the data, creating
\* the index, saving it) leaves the vector-store directory as it was.
C13_FailedBuildLeavesDisk ==
    [][(apc \in {"build_data", "build_create", "build_save"} /\ apc' = "idle")
          => fs' = fs]_vars

(***************************************************************************)
(* Properties of search.                                                   *)
(***************************************************************************)
\* C11: the results of a search are in descending order of score, entries
\* of equal score in ascending order of slot, and each metadata is the one
\* added with the vector of its slot.
C11_SearchOrder ==
    (last.op = "search" /\ last.err = "none")
        => /\ \A p \in 1 .. Len(results.hits) - 1 :
                  \/ results.hits[p].score > results.hits[p + 1].score
                  \/ /\ results.hits[p].score = results.hits[p + 1].score
                     /\ results.hits[p].slot < results.hits[p + 1].slot
           /\ \A p \in 1 .. Len(results.hits) :
                  results.hits[p].metadata = store.metadata[results.hits[p].slot + 1]

\* C10: a search that returns gives exactly min(k, ntotal) results, each of
\* an entry of the index, and no entry twice.
C10_SearchLength ==
    (cvsLast.op = "search" /\ cvsLast.err = "none")
        => /\ Len(cvsLast.hits) = Min(cvsLast.k, cvs.index.index.ntotal)
           /\ \A p \in 1 .. Len(cvsLast.hits) :
                  cvsLast.hits[p].idx \in 0 .. cvs.index.index.ntotal - 1
           /\ \A p, r \in 1 .. Len(cvsLast.hits) :
                  p # r => cvsLast.hits[p].idx # cvsLast.hits[r].idx

\* C21: a search never runs in the middle of an add: no search step starts
\* from a state in which the index holds more vectors than the metadata
\* list holds entries.
C21_ReaderWriterExclusion ==
    [][(last'.op = "search" /\ <<last, results>>' # <<last, results>>)
          => store.index.ntotal = Len(store.metadata)]_vars

\* C26: whenever the ComplaintVectorStore has an index, the index holds one
\* vector per chunk and there is one metadata entry per chunk.
C26_IndexMatchesChunks ==
    cvs.index.some
        => /\ cvs.index.index.ntotal = Len(cvs.chunks)
           /\ Len(cvs.chunks) = Len(cvs.metadata)

\* C22: a generate_embeddings that fails leaves the store, its embeddings
\* and its index among the rest, exactly as it was before the call.
C22_EmbeddingAtomic ==
    [][(cvsLast'.op = "generate_embeddings" /\ cvsLast'.err # "none")
          => cvs' = cvs]_vars

\* A second batch failed after the first was encoded, in a store that had
\* embeddings and an index from before.
C22_Witness ==
    /\ cvsLast.op = "generate_embeddings"
    /\ cvsLast.err = "embedding"
    /\ cvsLast.encoded > 0
    /\ cvs.embeddings.some
    /\ cvs.index.some

\* C25: between calls, an agent with is_initialized set holds the very
\* index that lies on disk: no index that was built and not saved is there
\* to answer queries.
C25_InitializedIsPersisted ==
    (apc = "idle" /\ agent.is_initialized)
        => agent.vector_store = Some(fs.content)

\* C27: embed_texts returns one vector per text handed in.
C27_OneVectorPerText ==
    ret.op = "embed_texts" => Len(ret.vectors) = Len(arg.texts)

\* C28: no chunk of TextChunker.chunk or of EmbeddingModel._chunk_text is
\* empty.
C28_NoEmptyChunk ==
    chunkOut.op # "none"
        => \A i \in 1 .. Len(chunkOut.chunks) : chunkOut.chunks[i].text # <<>>

(***************************************************************************)
(* Properties of the stratified samplers.                                  *)
(***************************************************************************)
\* classes <= sample_size <= len(df)
InRange == Len(arg.df.counts) <= arg.size /\ arg.size <= FrameLen(arg.df)

\* C23: with classes <= sample_size <= len(df), every class of df has at
\* least one row in the sample of stratified_sample.
C23_AllClasses ==
    (ret.op = "stratified_sample" /\ InRange /\ ret.err = "none")
        => \A i \in 1 .. Len(arg.df.counts) : ret.parts[i] >= 1

\* C29 as stated: with classes <= sample_size <= len(df), stratified_sample
\* returns exactly sample_size rows.
C29_ExactSize ==
    (ret.op = "stratified_sample" /\ InRange)
        => /\ ret.err = "none"
           /\ SeqSum(ret.parts) = arg.size

\* C29, amended: with classes <= sample_size <= len(df), in a frame of at
\* least one row where every row has a label, stratified_sample returns
\* exactly sample_size rows and the cap cuts no allocation.
C29_ExactSizeLabelled ==
    (ret.op = "stratified_sample" /\ InRange
        /\ arg.df.counts # <<>> /\ arg.df.missing = 0)
        => /\ ret.err = "none"
           /\ SeqSum(ret.parts) = arg.size
           /\ ret.parts = ret.allocations

\* The adjustment pass had units to take back, more than one.
C29_Witness ==
    /\ ret.op = "stratified_sample"
    /\ InRange
    /\ arg.df.counts # <<>>
    /\ arg.df.missing = 0
    /\ ret.diff < -1
    /\ SeqSum(ret.parts) = arg.size

\* C30: with n_samples <= len(df), what ComplaintVectorStore.stratified_sample
\* returns has exactly n_samples rows, and no product was asked for more
\* rows than it has.
C30_ExactSamples ==
    (ret.op = "cvs_stratified_sample" /\ arg.size <= FrameLen(arg.df)
        /\ ret.err = "none")
        => /\ SeqSum(ret.parts) = arg.size
           /\ \A i \in 1 .. Len(arg.df.counts) :
                  ret.allocations[i] <= arg.df.counts[i]

(***************************************************************************)
(* Properties of ComplaintDataLoader._clean_text.                          *)
(***************************************************************************)
\* C24: the text _clean_text returns neither begins nor ends with
\* whitespace, has no two whitespace characters in a row and none but the
\* blank, and cleaning it again changes nothing.
C24_CleanText ==
    ret.op = "_clean_text"
        => /\ ret.text = <<>> \/ (Head(ret.text) \notin Whitespace
                                  /\ ret.text[Len(ret.text)] \notin Whitespace)
           /\ \A i \in 1 .. Len(ret.text) - 1 :
                  ~(ret.text[i] \in Whitespace /\ ret.text[i + 1] \in Whitespace)
           /\ \A i \in 1 .. Len(ret.text) : ret.text[i] # "\t"
           /\ CleanText([str |-> TRUE, chars |-> ret.text]) = ret.text

(***************************************************************************)
(* Properties of RAGQueryEngine.                                           *)
(***************************************************************************)
\* The reference of a filtered search: rank the whole store, keep the
\* documents that pass the filter, take the first k.
FilteredReference(docs, question, k, f) ==
    {Take(Keep(docs, f, r), k) : r \in DocRankings(docs, question)}

\* C12: every product-filtered search gives what the reference gives: the
\* first k of the whole ranking restricted to the matching documents.
C12_FilteredSearch ==
    \A i \in 1 .. Len(qLast.searches) :
        qLast.searches[i].filter.given
            => qLast.groups[i] \in FilteredReference(qe.docs, qLast.question,
                                                    qLast.searches[i].k,
                                                    qLast.searches[i].filter)

\* C14: compare_products makes one filtered search per element of products,
\* in order, duplicates included; the sources are the results of the
\* searches one after the other, at most k_per_product from each.
C14_ComparePerProduct ==
    qLast.op = "compare"
        => /\ Len(qLast.searches) = Len(qLast.products)
           /\ \A i \in 1 .. Len(qLast.products) :
                  /\ qLast.searches[i].filter = Filter(qLast.products[i])
                  /\ Len(qLast.groups[i]) <= qLast.k.value
           /\ qLast.sources = Concat(qLast.groups)

\* C15: query searches with the filter exactly when a product filter is
\* set, with the caller's k when one is given and with TOP_K_RESULTS when
\* none is; a given k bounds the number of sources.
C15_QueryArguments ==
    qLast.op = "query"
        => /\ qLast.searches[1].filter.given
                  <=> (qLast.product_filter.given /\ qLast.product_filter.value # "")
           /\ qLast.k.given => qLast.searches[1].k = qLast.k.value
           /\ ~qLast.k.given => qLast.searches[1].k = TOP_K_RESULTS
           /\ qLast.k.given => Len(qLast.sources) <= qLast.k.value

(***************************************************************************)
(* Properties of the chunkers.                                             *)
(***************************************************************************)
\* The overlap a chunker works with: TextChunker's, none for _chunk_text.
OverlapOf(op) == IF op = "chunk" THEN chunkIn.overlap ELSE 0

\* The length a chunker measures a chunk by: characters or words.
Measure(op, sentences) == IF op = "chunk" THEN SumLen(sentences) ELSE SumWords(sentences)

Drop(seq, n) == SubSeq(seq, n + 1, Len(seq))

RECURSIVE Rebuilt(_, _, _)
\* The sentences of the chunks from chunk i on, those a chunk repeats from
\* the one before it (the last `overlap` of it, or all of it) left out.
Rebuilt(chunks, i, overlap) ==
    IF i > Len(chunks) THEN <<>>
    ELSE Drop(chunks[i].text,
              IF i = 1 THEN 0 ELSE Min(overlap, Len(chunks[i - 1].text)))
         \o Rebuilt(chunks, i + 1, overlap)

\* C16: the chunks, overlap repeats removed, give back the sentences of the
\* text in order, and every chunk is made of whole sentences of the text.
C16_ChunkBoundary ==
    chunkOut.op # "none"
        => /\ Rebuilt(chunkOut.chunks, 1, OverlapOf(chunkOut.op)) = chunkIn.sentences
           /\ \A i \in 1 .. Len(chunkOut.chunks) :
                  \A j \in 1 .. Len(chunkOut.chunks[i].text) :
                      \E n \in 1 .. Len(chunkIn.sentences) :
                          chunkOut.chunks[i].text[j] = chunkIn.sentences[n]

\* TextChunker with an overlap gave three chunks, the later ones starting
\* with a repeated sentence.
C16_Witness ==
    /\ chunkOut.op = "chunk" /\ chunkIn.overlap = 1
    /\ Len(chunkOut.chunks) = 3
    /\ chunkOut.chunks[2].text[1] = chunkOut.chunks[1].text[Len(chunkOut.chunks[1].text)]
    /\ Len(chunkIn.sentences) = 3

\* C17: with overlap o > 0, a chunk of TextChunker that follows a chunk of
\* at least o sentences starts with the last o sentences of that chunk.
C17_Overlap ==
    (chunkOut.op = "chunk" /\ chunkIn.overlap > 0)
        => \A i \in 1 .. Len(chunkOut.chunks) - 1 :
              LET prev == chunkOut.chunks[i].text
                  next == chunkOut.chunks[i + 1].text
                  o == chunkIn.overlap
              IN  Len(prev) >= o
                    => /\ Len(next) >= o
                       /\ SubSeq(next, 1, o) = SubSeq(prev, Len(prev) - o + 1, Len(prev))

\* A chunk of two sentences followed by a chunk that starts with the
\* second of them and not the first (overlap 1).
C17_Witness ==
    /\ chunkOut.op = "chunk" /\ chunkIn.overlap = 1
    /\ Len(chunkOut.chunks) = 2
    /\ Len(chunkOut.chunks[1].text) = 2
    /\ chunkOut.chunks[2].text[1] = chunkOut.chunks[1].text[2]
    /\ chunkOut.chunks[2].text[1] # chunkOut.chunks[1].text[1]

\* C18: the sentences of a chunk add up to at most chunk_size (characters
\* for TextChunker, words for _chunk_text), unless the chunk is one sentence
\* that alone is longer.
C18_SizeBudget ==
    chunkOut.op # "none"
        => \A i \in 1 .. Len(chunkOut.chunks) :
              \/ Measure(chunkOut.op, chunkOut.chunks[i].text) <= chunkIn.chunk_size
              \/ Len(chunkOut.chunks[i].text) = 1

\* C19: a sentence longer than chunk_size is a chunk of its own.
C19_LongSentenceAlone ==
    chunkOut.op # "none"
        => \A n \in 1 .. Len(chunkIn.sentences) :
              Measure(chunkOut.op, <<chunkIn.sentences[n]>>) > chunkIn.chunk_size
                 => \E i \in 1 .. Len(chunkOut.chunks) :
                       chunkOut.chunks[i].text = <<chunkIn.sentences[n]>>

\* C20: every chunk of TextChunker has the items of the parent metadata,
\* chunk_index equal to its place (from 0) and total_chunks equal to the
\* number of chunks.
C20_ChunkMetadata ==
    chunkOut.op = "chunk"
        => \A i \in 1 .. Len(chunkOut.chunks) :
              /\ chunkIn.metadata \subseteq chunkOut.chunks[i].metadata
              /\ \E kv \in chunkOut.chunks[i].metadata :
                    kv[1] = "chunk_index" /\ kv[2] = i - 1
              /\ \E kv \in chunkOut.chunks[i].metadata :
                    kv[1] = "total_chunks" /\ kv[2] = Len(chunkOut.chunks)

=============================================================================
